---- MODULE Spec2Model ----
(***************************************************************************)
(* V_Streamer: checkAuth, the video routes (upload, update, delete, view,   *)
(* like, dislike) of src/routes/video.routes.js and the comment routes,    *)
(* over the Video collection, the Comment collection and the media store.  *)
(*                                                                         *)
(* Every handler is an async function: it runs atomically between two      *)
(* awaits and other requests run while it awaits.  A request that awaits   *)
(* more than once is therefore a sequence of steps (find ... save) kept in *)
(* reqs; a handler with a single database call (the view) is one step.     *)
(*                                                                         *)
(* video.save() of a found document sends an updateOne on _id that $sets   *)
(* the paths modified since the find, and nothing else.                    *)
(*                                                                         *)
(* A step of a request is the effect of the call it awaited followed by    *)
(* the handler's code up to its next await; the code before the first      *)
(* await belongs to the first step.  A call that rejects has no effect.    *)
(*                                                                         *)
(* public_ids are `..._${Date.now()}`: requests are taken to reach their   *)
(* uploader.upload calls at different milliseconds, so every upload gets   *)
(* a public_id of its own.                                                 *)
(***************************************************************************)
EXTENDS Integers, Sequences, FiniteSets, Bags, TLC

\* ---------------------------------------------------------------- bounds
Users == {"A", "B"}          \* identities carried by verified tokens
VideoIds == {1}              \* ObjectIds, in the order they are handed out
Ids == VideoIds \cup {0}     \* the ids a request can name: 0 is no document's
Titles == {"t1", "t2"}       \* non-empty title strings
Files == {"video", "thumbnail"}   \* the fields of req.files
MaxReacts == 4               \* likes and dislikes that find a video (SpecReact)
MaxInFlight == 2             \* requests awaiting a database call at a time (SpecReact)
MaxReactsAll == 1            \* likes and dislikes that find a video (Spec)
MaxInFlightAll == 1          \* requests awaiting a database call at a time (Spec)
MaxMedia == 3                \* uploader.upload calls that resolve
MaxInFlightMedia == 2        \* requests awaiting a call at a time (SpecMedia)
MaxComments == 1             \* comments created
MaxInFlightComment == 1      \* requests awaiting a call at a time (SpecComment)
MaxInFlightDelete == 2       \* requests awaiting a call at a time (SpecDelete)
Texts == {"c1", "c2"}        \* non-empty comment texts
NoToken == "none"            \* a request without an Authorization header
BadToken == "bad"            \* a token jwt.verify throws on
Tokens == Users \cup {NoToken, BadToken}

VARIABLES
  docs,      \* the Video collection: existing _id -> document
  used,      \* _ids handed out so far (never handed out twice)
  reqs,      \* the requests awaiting a database call (a bag: two may be equal)
  hist,      \* history: the reactions saved so far, in the order of the saves
             \* (kept by SpecReact only)
  nreacts,   \* history: the likes and dislikes that found a video so far
  lastResp,  \* the response sent last
  media,     \* the media store: the public_ids of the objects it holds
  nmedia,    \* the public_ids handed out so far are 1..nmedia
  seen,      \* history: <<u, v>> for every view of v by u answered 200
  comments,  \* the Comment collection: existing _id -> document
  ncomments  \* the comment _ids handed out so far are 1..ncomments

vars == <<docs, used, reqs, hist, nreacts, lastResp, media, nmedia, seen,
          comments, ncomments>>

\* what the video routes leave alone
commentSide == <<comments, ncomments>>

\* what the comment routes leave alone
videoSide == <<docs, used, hist, nreacts, media, nmedia, seen>>

\* ---------------------------------------------------------------- helpers
Counters(d) == <<d.likes, d.dislikes>>

Range(s) == {s[i] : i \in DOMAIN s}

Occurrences(s, x) == Cardinality({i \in DOMAIN s : s[i] = x})

Abs(n) == IF n < 0 THEN -n ELSE n

\* stale (history): the response is to a save of a copy whose viewedBy was
\* no longer the stored one
NoResp ==
  [kind |-> "none", user |-> "none", vid |-> 0, status |-> 0, stale |-> FALSE]

Resp(k, u, v, s) ==
  [kind |-> k, user |-> u, vid |-> v, status |-> s, stale |-> FALSE]

Saved(r, stored) ==
  [Resp(r.kind, r.user, r.vid, 200) EXCEPT
     !.stale = r.found.viewedBy # stored.viewedBy]

\* fields the schema fills in when the constructor is not given them
SchemaDefaults == [likes |-> 0, dislikes |-> 0, viewedBy |-> <<>>]

RECURSIVE Split(_)
\* s.split(","): a string is the sequence of its characters
Split(s) ==
  IF \A i \in DOMAIN s : s[i] # "," THEN <<s>>
  ELSE LET k == CHOOSE i \in DOMAIN s :
                  s[i] = "," /\ \A j \in 1..(i - 1) : s[j] # ","
       IN <<SubSeq(s, 1, k - 1)>> \o Split(SubSeq(s, k + 1, Len(s)))

\* req.body: a field that is missing or empty is "", and << >> for tags
Body(t, d, c, g) == [title |-> t, description |-> d, category |-> c, tags |-> g]

\* the body of an update that sends a title and nothing else
TitleOnly(t) == Body(t, "", "", << >>)

\* the body of the uploads: the title t, with a description, a category and
\* the tags "x,y"
UploadBody(t) == Body(t, "d1", "g1", <<"x", ",", "y">>)

\* new Video({ ..., title, description, user_id: req.user._id, videoId,
\* thumbnailId, category, tags: tags ? tags.split(",") : [] })
NewVideo(u, t, vo, to) ==
  [user_id |-> u, title |-> t, videoId |-> vo, thumbnailId |-> to,
   description |-> UploadBody(t).description,
   category |-> UploadBody(t).category,
   tags |-> IF UploadBody(t).tags # << >>
            THEN Split(UploadBody(t).tags) ELSE << >>,
   likes |-> SchemaDefaults.likes, dislikes |-> SchemaDefaults.dislikes,
   viewedBy |-> SchemaDefaults.viewedBy]

\* ---------------------------------------------------------------- like / dislike
\* mutant: the like that never takes a dislike back
LikeKeepsDislikes(d) == [d EXCEPT !.likes = @ + 1]

\* mutant: the like that decrements without looking
LikeUnguarded(d) == [d EXCEPT !.likes = @ + 1, !.dislikes = @ - 1]

\* video.likes += 1; if (video.dislikes > 0) video.dislikes -= 1;
ApplyLike(d) ==
  [d EXCEPT !.likes = @ + 1,
            !.dislikes = IF @ > 0 THEN @ - 1 ELSE @]

\* mutant: the dislike that never takes a like back
DislikeKeepsLikes(d) == [d EXCEPT !.dislikes = @ + 1]

\* video.dislikes += 1; if (video.likes > 0) video.likes -= 1;
ApplyDislike(d) ==
  [d EXCEPT !.dislikes = @ + 1,
            !.likes = IF @ > 0 THEN @ - 1 ELSE @]

ApplyReaction(k, d) == IF k = "like" THEN ApplyLike(d) ELSE ApplyDislike(d)

\* the paths whose value differs from the one that was found
ModifiedPaths(found, local) == {f \in DOMAIN found : local[f] # found[f]}

\* mutant: a save that writes the whole document back
SaveWhole(stored, found, local) == local

\* video.save(): $set of the modified paths on the stored document
SaveDoc(stored, found, local) ==
  [f \in DOMAIN stored |->
     IF f \in ModifiedPaths(found, local) THEN local[f] ELSE stored[f]]

\* mutant: a view that appends the viewer whether or not it is there
PushViewer(arr, u) == Append(arr, u)

\* mutant: a view that writes its viewer over the others
ReplaceViewers(arr, u) == <<u>>

\* { $addToSet: { viewedBy: userId } }
AddToSet(arr, u) == IF u \in Range(arr) THEN arr ELSE Append(arr, u)

\* ---------------------------------------------------------------- requests
Reactions == {"like", "dislike"}

InFlight == DOMAIN reqs

RECURSIVE Copies(_)
\* how many requests of reqs are in the set S of its elements
Copies(S) ==
  IF S = {} THEN 0
  ELSE LET r == CHOOSE x \in S : TRUE IN reqs[r] + Copies(S \ {r})

\* the reactions that have found video v and not yet saved it
ReactingOn(v) == {r \in InFlight : r.kind \in Reactions /\ r.vid = v}

\* olap (history): how many other reactions on the video were awaiting their
\* save at some time between this request's find and its save
\* pc: the call the request awaits; body: req.body of an update
Request(k, u, v, found, local, n) ==
  [kind |-> k, user |-> u, vid |-> v,
   found |-> found, local |-> local, olap |-> n, pc |-> "db", body |-> ""]

\* the request r once it awaits the call pc with the copy d
Await(r, pc, d) == [r EXCEPT !.pc = pc, !.local = d]

\* reqs once one more reaction has found video v
Overlapped(v) ==
  LET new(r) == IF r \in ReactingOn(v) THEN [r EXCEPT !.olap = @ + 1] ELSE r
  IN [x \in {new(r) : r \in InFlight} |->
        Copies({r \in InFlight : new(r) = x})]

Start(r) == reqs (+) SetToBag({r})

Finish(r) == reqs (-) SetToBag({r})

\* r goes on as s
Goes(r, s) == Finish(r) (+) SetToBag({s})

\* the uploader.upload calls r has still to make
Uploads(r) ==
  IF r.pc \in {"thumbnail", "upload"} THEN 1
  ELSE IF r.pc = "destroy" /\ r.kind = "update" THEN 1
  ELSE 0

RECURSIVE Owed(_)
\* the uploader.upload calls the requests of S have still to make
Owed(S) ==
  IF S = {} THEN 0
  ELSE LET r == CHOOSE x \in S : TRUE
       IN reqs[r] * Uploads(r) + Owed(S \ {r})

\* n more uploads stay within MaxMedia
MediaRoom(n) == nmedia + Owed(InFlight) + n <= MaxMedia

\* the public_id the next upload gets
FreshMedia == nmedia + 1

\* fewer than n requests await a database call
Room(n) == BagCardinality(reqs) < n

\* the id new mongoose.Types.ObjectId() hands out next
FreshId == CHOOSE v \in VideoIds \ used : \A w \in VideoIds \ used : v <= w

Init ==
  /\ docs = << >>
  /\ used = {}
  /\ reqs = EmptyBag
  /\ hist = << >>
  /\ nreacts = 0
  /\ lastResp = NoResp
  /\ media = {}
  /\ nmedia = 0
  /\ seen = {}
  /\ comments = << >>
  /\ ncomments = 0

\* mutant: an upload that sends the video file to the media store before it
\* looks for the thumbnail file
UploadBuildEager(u, t, files) ==
  /\ files = Files => used # VideoIds
  /\ IF files # Files
     THEN /\ lastResp' = Resp("upload", u, 0, 400)
          /\ media' = IF "video" \in files THEN media \cup {FreshMedia} ELSE media
          /\ nmedia' = IF "video" \in files THEN nmedia + 1 ELSE nmedia
          /\ UNCHANGED <<reqs, used>>
     ELSE /\ media' = media \cup {FreshMedia}
          /\ nmedia' = nmedia + 1
          /\ reqs' = Start(Await(Request("upload", u, FreshId,
                                         << >>, << >>, 0),
                                 "thumbnail",
                                 [title |-> t, videoId |-> FreshMedia]))
          /\ used' = used \cup {FreshId}
          /\ UNCHANGED lastResp
  /\ UNCHANGED <<docs, hist, nreacts, seen, commentSide>>

\* POST /upload: the files are checked and the video file is uploaded
UploadBuild(u, t, files) ==
  /\ files = Files => used # VideoIds
  /\ IF files # Files
     THEN /\ lastResp' = Resp("upload", u, 0, 400)
          /\ UNCHANGED <<reqs, used, media, nmedia>>
     ELSE /\ media' = media \cup {FreshMedia}
          /\ nmedia' = nmedia + 1
          /\ reqs' = Start(Await(Request("upload", u, FreshId,
                                         << >>, << >>, 0),
                                 "thumbnail",
                                 [title |-> t, videoId |-> FreshMedia]))
          /\ used' = used \cup {FreshId}
          /\ UNCHANGED lastResp
  /\ UNCHANGED <<docs, hist, nreacts, seen, commentSide>>

\* ... then the thumbnail is uploaded and the document is built
UploadThumbnail(r) ==
  /\ r \in InFlight
  /\ r.kind = "upload" /\ r.pc = "thumbnail"
  /\ media' = media \cup {FreshMedia}
  /\ nmedia' = nmedia + 1
  /\ reqs' = Goes(r, Await(r, "db",
                NewVideo(r.user, r.local.title, r.local.videoId, FreshMedia)))
  /\ UNCHANGED <<docs, used, hist, nreacts, lastResp, seen, commentSide>>

\* ... then newVideo.save() and the 200
UploadSave(r) ==
  /\ r \in InFlight
  /\ r.kind = "upload" /\ r.pc = "db"
  /\ docs' = (r.vid :> r.local) @@ docs
  /\ reqs' = Finish(r)
  /\ lastResp' = Resp("upload", r.user, r.vid, 200)
  /\ UNCHANGED <<used, hist, nreacts, media, nmedia, seen, commentSide>>

\* POST /like, POST /dislike: findById, then the counters on the found copy
ReactFind(k, u, v) ==
  /\ IF v \notin DOMAIN docs
     THEN /\ lastResp' = Resp(k, u, v, 404)
          /\ UNCHANGED <<reqs, nreacts>>
     ELSE /\ reqs' = Overlapped(v) (+) SetToBag({
                Request(k, u, v, docs[v], ApplyReaction(k, docs[v]),
                        Copies(ReactingOn(v)))})
          /\ nreacts' = nreacts + 1
          /\ UNCHANGED lastResp
  /\ UNCHANGED <<docs, used, hist, media, nmedia, seen, commentSide>>

\* ... then video.save() and the 200 with the copy's counters; the save of a
\* document that is no longer stored rejects
ReactSave(r, keep) ==
  /\ r \in InFlight
  /\ r.kind \in Reactions
  /\ IF r.vid \notin DOMAIN docs
     THEN /\ lastResp' = Resp(r.kind, r.user, r.vid, 500)
          /\ UNCHANGED <<docs, hist>>
     ELSE /\ docs' = [docs EXCEPT ![r.vid] = SaveDoc(@, r.found, r.local)]
          /\ hist' = IF keep
                     THEN Append(hist,
                            [user |-> r.user, kind |-> r.kind, vid |-> r.vid,
                             olap |-> r.olap,
                             found |-> Counters(r.found),
                             before |-> Counters(docs[r.vid]),
                             after |-> Counters(docs'[r.vid])])
                     ELSE hist
          /\ lastResp' = Saved(r, docs[r.vid])
  /\ reqs' = Finish(r)
  /\ UNCHANGED <<used, nreacts, media, nmedia, seen, commentSide>>

\* mutant: a view with { upsert: true }
ViewUpsert(u, v) ==
  /\ docs' = IF v \in DOMAIN docs
             THEN [docs EXCEPT ![v].viewedBy = AddToSet(@, u)]
             ELSE (v :> NewVideo(u, "", 0, 0)) @@ docs
  /\ lastResp' = Resp("view", u, v, 200)
  /\ seen' = seen \cup {<<u, v>>}
  /\ UNCHANGED <<used, reqs, hist, nreacts, media, nmedia, commentSide>>

\* mutant: a view that makes the viewer the owner of the video
ViewTakesOver(u, v) ==
  /\ IF v \notin DOMAIN docs
     THEN /\ lastResp' = Resp("view", u, v, 404)
          /\ UNCHANGED <<docs, seen>>
     ELSE /\ docs' = [docs EXCEPT ![v].viewedBy = AddToSet(@, u),
                                  ![v].user_id = u]
          /\ lastResp' = Resp("view", u, v, 200)
          /\ seen' = seen \cup {<<u, v>>}
  /\ UNCHANGED <<used, reqs, hist, nreacts, media, nmedia, commentSide>>

\* GET /:id: one findByIdAndUpdate
View(u, v) ==
  /\ IF v \notin DOMAIN docs
     THEN /\ lastResp' = Resp("view", u, v, 404)
          /\ UNCHANGED <<docs, seen>>
     ELSE /\ docs' = [docs EXCEPT ![v].viewedBy = AddToSet(@, u)]
          /\ lastResp' = Resp("view", u, v, 200)
          /\ seen' = seen \cup {<<u, v>>}
  /\ UNCHANGED <<used, reqs, hist, nreacts, media, nmedia, commentSide>>

\* mutant: an owner check that lets every caller through
OwnsAny(u, d) == TRUE

\* video.user_id.toString() === req.user._id.toString()
Owns(u, d) == d.user_id = u

\* video.title = title || video.title
Retitled(d, t) == [d EXCEPT !.title = IF t # "" THEN t ELSE @]

\* mutant: an update that assigns the fields of the body as they come
EditedBlank(d, b) ==
  [d EXCEPT !.title = b.title, !.description = b.description,
            !.category = b.category, !.tags = Split(b.tags)]

\* video.title = title || video.title; the same for description and
\* category; video.tags = tags ? tags.split(",") : video.tags
Edited(d, b) ==
  [Retitled(d, b.title) EXCEPT
     !.description = IF b.description # "" THEN b.description ELSE @,
     !.category = IF b.category # "" THEN b.category ELSE @,
     !.tags = IF b.tags # << >> THEN Split(b.tags) ELSE @]

\* PUT /update/:id: findById, the owner check; without a thumbnail file the
\* new metadata on the copy
Update(u, v, b, thumb) ==
  /\ IF v \notin DOMAIN docs
     THEN /\ lastResp' = Resp("update", u, v, 404)
          /\ UNCHANGED reqs
     ELSE IF ~Owns(u, docs[v])
     THEN /\ lastResp' = Resp("update", u, v, 403)
          /\ UNCHANGED reqs
     ELSE /\ reqs' = Start(
                IF thumb
                THEN [Request("update", u, v, docs[v], docs[v], 0)
                        EXCEPT !.pc = "destroy", !.body = b]
                ELSE [Request("update", u, v, docs[v], Edited(docs[v], b), 0)
                        EXCEPT !.body = b])
          /\ UNCHANGED lastResp
  /\ UNCHANGED <<docs, used, hist, nreacts, media, nmedia, seen, commentSide>>

\* the update whose body has the title t and nothing else
UpdateFind(u, v, t, thumb) == Update(u, v, TitleOnly(t), thumb)

\* ... with a thumbnail file: uploader.destroy(video.thumbnailId)
UpdateDestroy(r) ==
  /\ r \in InFlight
  /\ r.kind = "update" /\ r.pc = "destroy"
  /\ media' = media \ {r.local.thumbnailId}
  /\ reqs' = Goes(r, [r EXCEPT !.pc = "upload"])
  /\ UNCHANGED <<docs, used, hist, nreacts, lastResp, nmedia, seen, commentSide>>

\* ... then the new thumbnail is uploaded; its public_id and the new metadata
\* on the copy
UpdateUpload(r) ==
  /\ r \in InFlight
  /\ r.kind = "update" /\ r.pc = "upload"
  /\ media' = media \cup {FreshMedia}
  /\ nmedia' = nmedia + 1
  /\ reqs' = Goes(r, Await(r, "db",
                Edited([r.local EXCEPT !.thumbnailId = FreshMedia], r.body)))
  /\ UNCHANGED <<docs, used, hist, nreacts, lastResp, seen, commentSide>>

\* mutant: a save that inserts the copy when the document is no longer stored
UpdateSaveUpsert(r) ==
  /\ r \in InFlight
  /\ r.kind = "update" /\ r.pc = "db"
  /\ docs' = IF r.vid \in DOMAIN docs
             THEN [docs EXCEPT ![r.vid] = SaveDoc(@, r.found, r.local)]
             ELSE (r.vid :> r.local) @@ docs
  /\ lastResp' = Resp("update", r.user, r.vid, 200)
  /\ reqs' = Finish(r)
  /\ UNCHANGED <<used, hist, nreacts, media, nmedia, seen, commentSide>>

\* ... then video.save() and the 200
UpdateSave(r) ==
  /\ r \in InFlight
  /\ r.kind = "update" /\ r.pc = "db"
  /\ IF r.vid \notin DOMAIN docs
     THEN /\ lastResp' = Resp("update", r.user, r.vid, 500)
          /\ UNCHANGED docs
     ELSE /\ docs' = [docs EXCEPT ![r.vid] = SaveDoc(@, r.found, r.local)]
          /\ lastResp' = Saved(r, docs[r.vid])
  /\ reqs' = Finish(r)
  /\ UNCHANGED <<used, hist, nreacts, media, nmedia, seen, commentSide>>

\* DELETE /delete/:id: findById, the owner check
DeleteFind(u, v) ==
  /\ IF v \notin DOMAIN docs
     THEN /\ lastResp' = Resp("delete", u, v, 404)
          /\ UNCHANGED reqs
     ELSE IF ~Owns(u, docs[v])
     THEN /\ lastResp' = Resp("delete", u, v, 403)
          /\ UNCHANGED reqs
     ELSE /\ reqs' = Start([Request("delete", u, v, docs[v], docs[v], 0)
                              EXCEPT !.pc = "destroyVideo"])
          /\ UNCHANGED lastResp
  /\ UNCHANGED <<docs, used, hist, nreacts, media, nmedia, seen, commentSide>>

\* ... then uploader.destroy(video.videoId, { resource_type: "video" })
DeleteDestroyVideo(r) ==
  /\ r \in InFlight
  /\ r.kind = "delete" /\ r.pc = "destroyVideo"
  /\ media' = media \ {r.local.videoId}
  /\ reqs' = Goes(r, [r EXCEPT !.pc = "destroy"])
  /\ UNCHANGED <<docs, used, hist, nreacts, lastResp, nmedia, seen, commentSide>>

\* ... then uploader.destroy(video.thumbnailId)
DeleteDestroyThumbnail(r) ==
  /\ r \in InFlight
  /\ r.kind = "delete" /\ r.pc = "destroy"
  /\ media' = media \ {r.local.thumbnailId}
  /\ reqs' = Goes(r, [r EXCEPT !.pc = "db"])
  /\ UNCHANGED <<docs, used, hist, nreacts, lastResp, nmedia, seen, commentSide>>

\* ... then findByIdAndDelete and the 200
DeleteDoc(r) ==
  /\ r \in InFlight
  /\ r.kind = "delete" /\ r.pc = "db"
  /\ docs' = [v \in DOMAIN docs \ {r.vid} |-> docs[v]]
  /\ lastResp' = Resp("delete", r.user, r.vid, 200)
  /\ reqs' = Finish(r)
  /\ UNCHANGED <<used, hist, nreacts, media, nmedia, seen, commentSide>>

\* the first call of a handler rejects: its catch block answers 500
FindFails(k, u, v) ==
  /\ lastResp' = Resp(k, u, v, 500)
  /\ UNCHANGED <<docs, used, reqs, hist, nreacts, media, nmedia, seen, commentSide>>

\* mutant: a catch block that logs the error and sends nothing
FailSilent(r) ==
  /\ r \in InFlight
  /\ reqs' = Finish(r)
  /\ UNCHANGED <<docs, used, hist, nreacts, lastResp, media, nmedia, seen, commentSide>>

\* a later call that a request awaits rejects: its catch block answers 500
Fail(r) ==
  /\ r \in InFlight
  /\ lastResp' = Resp(r.kind, r.user, r.vid, 500)
  /\ reqs' = Finish(r)
  /\ UNCHANGED <<docs, used, hist, nreacts, media, nmedia, seen, commentSide>>

\* ---------------------------------------------------------------- comments
\* mutant: an author check that lets every caller through
WroteAny(u, c) == TRUE

\* comment.user_id.toString() === req.user._id
Wrote(u, c) == c.user_id = u

\* new Comment({ _id, video_id, commentText, user_id: req.user._id })
NewComment(u, v, txt) == [video_id |-> v, commentText |-> txt, user_id |-> u]

\* POST /new: the body is checked, the comment is built and saved
CommentNew(u, v, txt) ==
  /\ IF v = 0 \/ txt = ""
     THEN /\ lastResp' = Resp("comment", u, 0, 400)
          /\ UNCHANGED <<comments, ncomments>>
     ELSE /\ comments' = (ncomments + 1 :> NewComment(u, v, txt)) @@ comments
          /\ ncomments' = ncomments + 1
          /\ lastResp' = Resp("comment", u, ncomments + 1, 201)
  /\ UNCHANGED <<reqs, videoSide>>

\* DELETE /:commentId: findById, the author check
CommentDeleteFind(u, c) ==
  /\ IF c \notin DOMAIN comments
     THEN /\ lastResp' = Resp("commentDelete", u, c, 404)
          /\ UNCHANGED reqs
     ELSE IF ~Wrote(u, comments[c])
     THEN /\ lastResp' = Resp("commentDelete", u, c, 403)
          /\ UNCHANGED reqs
     ELSE /\ reqs' = Start(Request("commentDelete", u, c,
                                   comments[c], comments[c], 0))
          /\ UNCHANGED lastResp
  /\ UNCHANGED <<comments, ncomments, videoSide>>

\* mutant: a delete that also takes the views of the comment's video back
CommentDeleteCascade(r) ==
  /\ r \in InFlight
  /\ r.kind = "commentDelete"
  /\ comments' = [c \in DOMAIN comments \ {r.vid} |-> comments[c]]
  /\ docs' = [v \in DOMAIN docs |->
               IF v = r.found.video_id
               THEN [docs[v] EXCEPT !.viewedBy = << >>] ELSE docs[v]]
  /\ lastResp' = Resp("commentDelete", r.user, r.vid, 200)
  /\ reqs' = Finish(r)
  /\ UNCHANGED <<ncomments, used, hist, nreacts, media, nmedia, seen>>

\* ... then findByIdAndDelete and the 200
CommentDeleteDoc(r) ==
  /\ r \in InFlight
  /\ r.kind = "commentDelete"
  /\ comments' = [c \in DOMAIN comments \ {r.vid} |-> comments[c]]
  /\ lastResp' = Resp("commentDelete", r.user, r.vid, 200)
  /\ reqs' = Finish(r)
  /\ UNCHANGED <<ncomments, videoSide>>

\* PUT /:commentId: findById, the author check, the new text on the copy
CommentUpdateFind(u, c, txt) ==
  /\ IF c \notin DOMAIN comments
     THEN /\ lastResp' = Resp("commentUpdate", u, c, 401)
          /\ UNCHANGED reqs
     ELSE IF ~Wrote(u, comments[c])
     THEN /\ lastResp' = Resp("commentUpdate", u, c, 403)
          /\ UNCHANGED reqs
     ELSE /\ reqs' = Start(Request("commentUpdate", u, c, comments[c],
                                   [comments[c] EXCEPT !.commentText = txt], 0))
          /\ UNCHANGED lastResp
  /\ UNCHANGED <<comments, ncomments, videoSide>>

\* ... then comment.save() and the 200
CommentUpdateSave(r) ==
  /\ r \in InFlight
  /\ r.kind = "commentUpdate"
  /\ IF r.vid \notin DOMAIN comments
     THEN /\ lastResp' = Resp("commentUpdate", r.user, r.vid, 500)
          /\ UNCHANGED comments
     ELSE /\ comments' = [comments EXCEPT
                            ![r.vid] = SaveDoc(@, r.found, r.local)]
          /\ lastResp' = Resp("commentUpdate", r.user, r.vid, 200)
  /\ reqs' = Finish(r)
  /\ UNCHANGED <<ncomments, videoSide>>

\* GET /:videoId: Comment.find({ video_id }) and the 200
CommentList(u, v) ==
  /\ lastResp' = Resp("comments", u, v, 200)
  /\ UNCHANGED <<reqs, comments, ncomments, videoSide>>

\* ---------------------------------------------------------------- routers
\* mutant: a checkAuth that calls next() whatever the token
CheckAuthOpen(tok, k, v, handler) == handler

\* checkAuth in front of a handler: 401 without a token, 500 when jwt.verify
\* throws, next() with req.user the decoded token otherwise
CheckAuth(tok, k, v, handler) ==
  IF tok = NoToken
  THEN /\ lastResp' = Resp(k, tok, v, 401)
       /\ UNCHANGED <<docs, used, reqs, hist, nreacts, media, nmedia, seen, commentSide>>
  ELSE IF tok \notin Users
  THEN /\ lastResp' = Resp(k, tok, v, 500)
       /\ UNCHANGED <<docs, used, reqs, hist, nreacts, media, nmedia, seen, commentSide>>
  ELSE handler

\* the whole video router
Next ==
  \/ \E tok \in Tokens, t \in Titles, files \in SUBSET Files :
       CheckAuth(tok, "upload", 0,
                 /\ Room(MaxInFlightAll) /\ MediaRoom(2)
                 /\ UploadBuild(tok, t, files))
  \/ \E r \in InFlight : UploadThumbnail(r)
  \/ \E r \in InFlight : UploadSave(r)
  \/ \E k \in Reactions, tok \in Tokens, v \in VideoIds :
       CheckAuth(tok, k, v,
                 /\ Room(MaxInFlightAll) /\ nreacts < MaxReactsAll
                 /\ ReactFind(k, tok, v))
  \/ \E r \in InFlight : ReactSave(r, FALSE)
  \/ \E tok \in Tokens, v \in VideoIds : CheckAuth(tok, "view", v, View(tok, v))
  \/ \E tok \in Tokens, v \in VideoIds, t \in Titles \cup {""}, thumb \in BOOLEAN :
       CheckAuth(tok, "update", v,
                 /\ Room(MaxInFlightAll) /\ MediaRoom(IF thumb THEN 1 ELSE 0)
                 /\ UpdateFind(tok, v, t, thumb))
  \/ \E r \in InFlight : UpdateDestroy(r)
  \/ \E r \in InFlight : UpdateUpload(r)
  \/ \E r \in InFlight : UpdateSave(r)
  \/ \E tok \in Tokens, v \in VideoIds :
       CheckAuth(tok, "delete", v,
                 Room(MaxInFlightAll) /\ DeleteFind(tok, v))
  \/ \E r \in InFlight : DeleteDestroyVideo(r)
  \/ \E r \in InFlight : DeleteDestroyThumbnail(r)
  \/ \E r \in InFlight : DeleteDoc(r)
  \/ \E k \in Reactions \cup {"view", "update", "delete"},
        u \in Users, v \in VideoIds : FindFails(k, u, v)
  \/ \E u \in Users : FindFails("upload", u, 0)
  \/ \E r \in InFlight : Fail(r)

Spec == Init /\ [][Next]_vars

\* uploads, likes and dislikes alone, with room for longer runs of reactions
\* and with their history kept
NextReact ==
  \/ \E u \in Users :
       Room(MaxInFlight) /\ MediaRoom(2) /\ UploadBuild(u, "t1", Files)
  \/ \E r \in InFlight : UploadThumbnail(r)
  \/ \E r \in InFlight : UploadSave(r)
  \/ \E k \in Reactions, u \in Users, v \in VideoIds :
       Room(MaxInFlight) /\ nreacts < MaxReacts /\ ReactFind(k, u, v)
  \/ \E r \in InFlight : ReactSave(r, TRUE)
  \/ \E r \in InFlight : Fail(r)

SpecReact == Init /\ [][NextReact]_vars

\* the requests that read and write the counters and viewedBy of a video:
\* uploads, views, likes, dislikes, updates of the metadata and deletes; the
\* video is A's
NextView ==
  \/ Room(MaxInFlightAll) /\ MediaRoom(2) /\ UploadBuild("A", "t1", Files)
  \/ \E r \in InFlight : UploadThumbnail(r)
  \/ \E r \in InFlight : UploadSave(r)
  \/ \E k \in Reactions, u \in Users, v \in Ids :
       Room(MaxInFlightAll) /\ nreacts < MaxReactsAll /\ ReactFind(k, u, v)
  \/ \E r \in InFlight : ReactSave(r, FALSE)
  \/ \E u \in Users, v \in Ids : View(u, v)
  \/ \E u \in Users, v \in VideoIds, t \in {"t2", ""} :
       Room(MaxInFlightAll) /\ UpdateFind(u, v, t, FALSE)
  \/ \E r \in InFlight : UpdateSave(r)
  \/ \E u \in Users, v \in VideoIds :
       Room(MaxInFlightAll) /\ DeleteFind(u, v)
  \/ \E r \in InFlight : DeleteDestroyVideo(r)
  \/ \E r \in InFlight : DeleteDestroyThumbnail(r)
  \/ \E r \in InFlight : DeleteDoc(r)

SpecView == Init /\ [][NextView]_vars

\* the requests that write to the media store: uploads, updates and deletes,
\* and the calls of theirs that reject
NextMedia ==
  \/ \E u \in Users :
       Room(MaxInFlightMedia) /\ MediaRoom(2) /\ UploadBuild(u, "t1", Files)
  \/ \E r \in InFlight : UploadThumbnail(r)
  \/ \E r \in InFlight : UploadSave(r)
  \/ \E u \in Users, v \in VideoIds, t \in {"t2", ""}, thumb \in BOOLEAN :
       /\ Room(MaxInFlightMedia) /\ MediaRoom(IF thumb THEN 1 ELSE 0)
       /\ UpdateFind(u, v, t, thumb)
  \/ \E r \in InFlight : UpdateDestroy(r)
  \/ \E r \in InFlight : UpdateUpload(r)
  \/ \E r \in InFlight : UpdateSave(r)
  \/ \E u \in Users, v \in VideoIds :
       Room(MaxInFlightMedia) /\ DeleteFind(u, v)
  \/ \E r \in InFlight : DeleteDestroyVideo(r)
  \/ \E r \in InFlight : DeleteDestroyThumbnail(r)
  \/ \E r \in InFlight : DeleteDoc(r)
  \/ \E r \in InFlight : Fail(r)

SpecMedia == Init /\ [][NextMedia]_vars

\* the comment router, over videos that are uploaded and viewed
NextComment ==
  \/ \E u \in Users :
       Room(MaxInFlightComment) /\ MediaRoom(2) /\ UploadBuild(u, "t1", Files)
  \/ \E r \in InFlight : UploadThumbnail(r)
  \/ \E r \in InFlight : UploadSave(r)
  \/ \E u \in Users, v \in VideoIds : View(u, v)
  \/ \E u \in Users, v \in VideoIds \cup {0}, txt \in Texts \cup {""} :
       ncomments < MaxComments /\ CommentNew(u, v, txt)
  \/ \E u \in Users, c \in 1..MaxComments :
       Room(MaxInFlightComment) /\ CommentDeleteFind(u, c)
  \/ \E r \in InFlight : CommentDeleteDoc(r)
  \/ \E u \in Users, c \in 1..MaxComments, txt \in Texts :
       Room(MaxInFlightComment) /\ CommentUpdateFind(u, c, txt)
  \/ \E r \in InFlight : CommentUpdateSave(r)
  \/ \E u \in Users, v \in VideoIds : CommentList(u, v)
  \/ \E r \in InFlight : Fail(r)

SpecComment == Init /\ [][NextComment]_vars

\* every endpoint of the video router behind checkAuth, called with and
\* without a token that verifies
NextAuth ==
  \/ \E tok \in Tokens :
       CheckAuth(tok, "upload", 0,
                 /\ Room(MaxInFlightAll) /\ MediaRoom(2)
                 /\ UploadBuild(tok, "t1", Files))
  \/ \E r \in InFlight : UploadThumbnail(r)
  \/ \E r \in InFlight : UploadSave(r)
  \/ \E k \in Reactions, tok \in Tokens, v \in VideoIds :
       CheckAuth(tok, k, v,
                 /\ Room(MaxInFlightAll) /\ nreacts < MaxReactsAll
                 /\ ReactFind(k, tok, v))
  \/ \E r \in InFlight : ReactSave(r, FALSE)
  \/ \E tok \in Tokens, v \in VideoIds :
       CheckAuth(tok, "view", v, View(tok, v))
  \/ \E tok \in Tokens, v \in VideoIds :
       CheckAuth(tok, "update", v,
                 Room(MaxInFlightAll) /\ UpdateFind(tok, v, "", FALSE))
  \/ \E r \in InFlight : UpdateSave(r)
  \/ \E tok \in Tokens, v \in VideoIds :
       CheckAuth(tok, "delete", v,
                 Room(MaxInFlightAll) /\ DeleteFind(tok, v))
  \/ \E r \in InFlight : DeleteDestroyVideo(r)
  \/ \E r \in InFlight : DeleteDestroyThumbnail(r)
  \/ \E r \in InFlight : DeleteDoc(r)

SpecAuth == Init /\ [][NextAuth]_vars

\* a delete among the requests it can overtake: likes, dislikes, views and
\* updates of the video it removes; the video is A's and B views it
NextDelete ==
  \/ Room(MaxInFlightDelete) /\ MediaRoom(2) /\ UploadBuild("A", "t1", Files)
  \/ \E r \in InFlight : UploadThumbnail(r)
  \/ \E r \in InFlight : UploadSave(r)
  \/ \E k \in Reactions, u \in Users, v \in VideoIds :
       Room(MaxInFlightDelete) /\ nreacts < MaxReactsAll /\ ReactFind(k, u, v)
  \/ \E r \in InFlight : ReactSave(r, FALSE)
  \/ \E v \in VideoIds : View("B", v)
  \/ \E u \in Users, v \in VideoIds :
       Room(MaxInFlightDelete) /\ UpdateFind(u, v, "t2", FALSE)
  \/ \E r \in InFlight : UpdateSave(r)
  \/ \E u \in Users, v \in VideoIds :
       Room(MaxInFlightDelete) /\ DeleteFind(u, v)
  \/ \E r \in InFlight : DeleteDestroyVideo(r)
  \/ \E r \in InFlight : DeleteDestroyThumbnail(r)
  \/ \E r \in InFlight : DeleteDoc(r)

SpecDelete == Init /\ [][NextDelete]_vars

\* the requests that create and rewrite videos and comments: uploads with
\* and without their files, likes,
\* dislikes, views, updates of videos, new comments and updates of comments;
\* the video is A's and B views it
NextOwner ==
  \/ \E files \in SUBSET Files :
       /\ Room(MaxInFlightAll) /\ (files = Files => MediaRoom(2))
       /\ UploadBuild("A", "t1", files)
  \/ \E r \in InFlight : UploadThumbnail(r)
  \/ \E r \in InFlight : UploadSave(r)
  \/ \E k \in Reactions, u \in Users, v \in VideoIds :
       Room(MaxInFlightAll) /\ nreacts < MaxReactsAll /\ ReactFind(k, u, v)
  \/ \E r \in InFlight : ReactSave(r, FALSE)
  \/ \E v \in VideoIds : View("B", v)
  \/ \E u \in Users, v \in VideoIds :
       Room(MaxInFlightAll) /\ UpdateFind(u, v, "t2", FALSE)
  \/ \E r \in InFlight : UpdateSave(r)
  \/ \E u \in Users, v \in VideoIds :
       ncomments < MaxComments /\ CommentNew(u, v, "c1")
  \/ \E u \in Users, c \in 1..MaxComments :
       Room(MaxInFlightAll) /\ CommentUpdateFind(u, c, "c2")
  \/ \E r \in InFlight : CommentUpdateSave(r)

SpecOwner == Init /\ [][NextOwner]_vars

\* the bodies of the updates: each field is empty in one and new in the other
Bodies == {Body("t2", "", "g2", << >>), Body("", "d2", "", <<"z">>)}

\* the owner's updates, with and without a thumbnail file, among likes,
\* dislikes and views of the video; the video is A's, and B reacts and views
NextUpdate ==
  \/ Room(MaxInFlightAll) /\ MediaRoom(2) /\ UploadBuild("A", "t1", Files)
  \/ \E r \in InFlight : UploadThumbnail(r)
  \/ \E r \in InFlight : UploadSave(r)
  \/ \E k \in Reactions, v \in VideoIds :
       Room(MaxInFlightAll) /\ nreacts < MaxReactsAll /\ ReactFind(k, "B", v)
  \/ \E r \in InFlight : ReactSave(r, FALSE)
  \/ \E v \in VideoIds : View("B", v)
  \/ \E u \in Users, v \in VideoIds, b \in Bodies, thumb \in BOOLEAN :
       /\ Room(MaxInFlightAll) /\ MediaRoom(IF thumb THEN 1 ELSE 0)
       /\ Update(u, v, b, thumb)
  \/ \E r \in InFlight : UpdateDestroy(r)
  \/ \E r \in InFlight : UpdateUpload(r)
  \/ \E r \in InFlight : UpdateSave(r)

SpecUpdate == Init /\ [][NextUpdate]_vars

\* the caller u has no request on its way
Idle(u) == ~\E r \in InFlight : r.user = u

\* the call the request r awaits returns, or rejects, and the handler runs on
Proceed(r) ==
  \/ UploadThumbnail(r)
  \/ UploadSave(r)
  \/ ReactSave(r, FALSE)
  \/ UpdateSave(r)
  \/ DeleteDestroyVideo(r)
  \/ DeleteDestroyThumbnail(r)
  \/ DeleteDoc(r)
  \/ CommentUpdateSave(r)
  \/ Fail(r)

\* the call that the request of u awaits returns or rejects
ProceedOf(u) == \E r \in InFlight : r.user = u /\ Proceed(r)

\* endpoints of both routers behind checkAuth (upload, like, dislike, view,
\* update, delete, new comment, update of a comment), every awaited call
\* returning or rejecting; a caller sends a request that awaits calls when
\* the one before it was answered; the video is A's, and B reacts, views and
\* comments
NextLive ==
  \/ \E tok \in {"A", NoToken, BadToken} :
       CheckAuth(tok, "upload", 0,
                 Idle(tok) /\ MediaRoom(2) /\ UploadBuild(tok, "t1", Files))
  \/ \E k \in Reactions, v \in VideoIds :
       CheckAuth("B", k, v,
                 Idle("B") /\ nreacts < MaxReactsAll /\ ReactFind(k, "B", v))
  \/ \E v \in VideoIds : CheckAuth("B", "view", v, View("B", v))
  \/ \E v \in VideoIds :
       CheckAuth("A", "update", v, Idle("A") /\ UpdateFind("A", v, "", FALSE))
  \/ \E v \in VideoIds :
       CheckAuth("A", "delete", v, Idle("A") /\ DeleteFind("A", v))
  \/ \E v \in VideoIds :
       CheckAuth("B", "comment", 0,
                 ncomments < MaxComments /\ CommentNew("B", v, "c1"))
  \/ \E c \in 1..MaxComments :
       CheckAuth("B", "commentUpdate", c,
                 Idle("B") /\ CommentUpdateFind("B", c, "c1"))
  \/ \E r \in InFlight : Proceed(r)

\* every call a request awaits returns or rejects in the end
SpecLive ==
  /\ Init /\ [][NextLive]_vars
  /\ \A u \in Users : WF_vars(ProceedOf(u))

\* ================================================================ claims
\* ---------------------------------------------------------------- history
\* entry i of hist ran alone: no other reaction on its video awaited a save
\* between its find and its save
Alone(i) == hist[i].olap = 0

\* the reaction user u made last on video v before entry i, or "None"
ReactionBefore(u, v, i) ==
  LET mine == {j \in 1..(i - 1) : hist[j].user = u /\ hist[j].vid = v}
  IN IF mine = {} THEN "None"
     ELSE LET j == CHOOSE x \in mine : \A y \in mine : y <= x
          IN IF hist[j].kind = "like" THEN "Liked" ELSE "Disliked"

\* the reaction user u holds on video v now
ReactionNow(u, v) == ReactionBefore(u, v, Len(hist) + 1)

\* the counters k1 then k2, one after the other, leave of the counters b
InTurn(b, k1, k2) ==
  Counters(ApplyReaction(k2,
             ApplyReaction(k1, [likes |-> b[1], dislikes |-> b[2]])))

\* entries i and i+1 of hist ran at the same time and with nothing else: both
\* found the counters the first one then wrote over
Together(i) ==
  /\ i + 1 \in DOMAIN hist
  /\ hist[i].vid = hist[i + 1].vid
  /\ hist[i].olap = 1
  /\ hist[i + 1].olap = 1
  /\ hist[i].before = hist[i].found
  /\ hist[i + 1].found = hist[i].found

\* C1: a like by a user that follows at once on a like by the same user leaves
\* both counters as the first like left them; the same for two dislikes
C1_RepeatedReactionKeepsCounts ==
  \A i \in DOMAIN hist :
    ( /\ i + 1 \in DOMAIN hist
      /\ Alone(i) /\ Alone(i + 1)
      /\ hist[i].vid = hist[i + 1].vid
      /\ hist[i].user = hist[i + 1].user
      /\ hist[i].kind = hist[i + 1].kind )
    => hist[i + 1].after = hist[i].after

\* C2: after likes and dislikes that ran one after the other, likes is the
\* number of users whose last reaction is a like and dislikes the number of
\* users whose last reaction is a dislike
C2_CountsAreDistinctReactors ==
  \A v \in DOMAIN docs :
    (ReactingOn(v) = {} /\ \A i \in DOMAIN hist : Alone(i)) =>
      /\ docs[v].likes =
           Cardinality({u \in Users : ReactionNow(u, v) = "Liked"})
      /\ docs[v].dislikes =
           Cardinality({u \in Users : ReactionNow(u, v) = "Disliked"})

\* C3: two reactions by different users that run at the same time leave the
\* counters that the two leave when run one after the other, in one of the
\* two orders
C3_ConcurrentUsersSerializable ==
  \A i \in DOMAIN hist :
    (Together(i) /\ hist[i].user # hist[i + 1].user)
    => hist[i + 1].after \in
         {InTurn(hist[i].found, hist[i].kind, hist[i + 1].kind),
          InTurn(hist[i].found, hist[i + 1].kind, hist[i].kind)}

\* the scenario of C4 and the counters it names
Scenario ==
  << <<"A", "like">>, <<"A", "dislike">>, <<"A", "like">>, <<"B", "like">> >>

ScenarioCounts == << <<1, 0>>, <<0, 1>>, <<1, 0>>, <<2, 0>> >>

\* the first k reactions of the run are the first k steps of the scenario, one
\* after the other on one new video
RanScenario(k) ==
  /\ k <= Len(hist)
  /\ hist[1].before = <<0, 0>>
  /\ \A j \in 1..k :
       /\ Alone(j)
       /\ hist[j].vid = hist[1].vid
       /\ <<hist[j].user, hist[j].kind>> = Scenario[j]

\* C4: on a new video, A likes, A dislikes, A likes, B likes leaves the
\* counters (1,0), then (0,1), then (1,0), then (2,0)
C4_ScenarioCounts ==
  \A k \in DOMAIN Scenario :
    RanScenario(k) => hist[k].after = ScenarioCounts[k]

C4_Witness == RanScenario(4)

\* C5: the reaction of a user who holds none adds one to the counter asked for
\* and leaves the other counter alone
C5_FirstReactionAddsOne ==
  \A i \in DOMAIN hist :
    (Alone(i) /\ ReactionBefore(hist[i].user, hist[i].vid, i) = "None")
    => hist[i].after =
         IF hist[i].kind = "like"
         THEN <<hist[i].before[1] + 1, hist[i].before[2]>>
         ELSE <<hist[i].before[1], hist[i].before[2] + 1>>

\* C6: no like or dislike moves likes + dislikes by more than one
C6_SumMovesByAtMostOne ==
  \A i \in DOMAIN hist :
    Abs((hist[i].after[1] + hist[i].after[2])
        - (hist[i].before[1] + hist[i].before[2])) <= 1

\* C7: likes and dislikes are never negative, whatever likes and dislikes run
\* and however they interleave
C7_CountersNonNegative ==
  \A v \in DOMAIN docs : docs[v].likes >= 0 /\ docs[v].dislikes >= 0

\* a like took a dislike back, and a dislike a like, with reactions overlapping
C7_Witness ==
  \E i, j \in DOMAIN hist :
    /\ hist[i].olap > 0
    /\ hist[i].kind = "like" /\ hist[i].after[2] < hist[i].before[2]
    /\ hist[j].kind = "dislike" /\ hist[j].after[1] < hist[j].before[1]

\* C8: two reactions by one user that run at the same time leave the counters
\* that the two leave when run one after the other, in one of the two orders
C8_ConcurrentSameUserSerializable ==
  \A i \in DOMAIN hist :
    (Together(i) /\ hist[i].user = hist[i + 1].user)
    => hist[i + 1].after \in
         {InTurn(hist[i].found, hist[i].kind, hist[i + 1].kind),
          InTurn(hist[i].found, hist[i + 1].kind, hist[i].kind)}

\* C9: a view by u leaves u in viewedBy exactly once, and a view by a user
\* whose view is recorded leaves viewedBy as it was
C9_ViewTwiceIsViewOnce ==
  [][\A u \in Users, v \in VideoIds :
       (View(u, v) /\ v \in DOMAIN docs) =>
         /\ Occurrences(docs'[v].viewedBy, u) = 1
         /\ u \in Range(docs[v].viewedBy) =>
              docs'[v].viewedBy = docs[v].viewedBy]_vars

\* A viewed first and B second, and the last response is to a view by A: A
\* has viewed again
C9_Witness ==
  \E v \in DOMAIN docs :
    /\ docs[v].viewedBy = <<"A", "B">>
    /\ lastResp = Resp("view", "A", v, 200)

\* C10: as long as the document is stored, no step takes a user out of
\* viewedBy
C10_ViewedByOnlyGrows ==
  [][\A v \in DOMAIN docs \cap DOMAIN docs' :
       Range(docs[v].viewedBy) \subseteq Range(docs'[v].viewedBy)]_vars

\* a like, a dislike or an update has saved a copy found before a view, and
\* the view is still recorded
C10_Witness ==
  \E v \in DOMAIN docs :
    /\ docs[v].viewedBy # << >>
    /\ lastResp.vid = v
    /\ lastResp.status = 200
    /\ lastResp.stale

\* C11: once the views of an existing video by two different users have both
\* been answered, both users are in its viewedBy, whichever came first and
\* whatever ran between them
C11_ConcurrentViewsBothRecorded ==
  \A v \in DOMAIN docs : \A u1, u2 \in Users :
    (u1 # u2 /\ <<u1, v>> \in seen /\ <<u2, v>> \in seen)
    => {u1, u2} \subseteq Range(docs[v].viewedBy)

\* both users have viewed the video while a like, dislike or update that found
\* it before the two views awaits its save
C11_Witness ==
  \E v \in DOMAIN docs :
    /\ {<<"A", v>>, <<"B", v>>} \subseteq seen
    /\ Range(docs[v].viewedBy) = {"A", "B"}
    /\ \E r \in InFlight :
         r.vid = v /\ r.kind \in Reactions \cup {"update"}
                   /\ r.found.viewedBy = << >>

\* what an update may write and a delete may remove
Owned(d) == <<d.title, d.videoId, d.thumbnailId>>

\* the media objects the stored video v names
MediaOf(v) == {docs[v].videoId, docs[v].thumbnailId}

\* the step is one of a request by the owner of the stored video v
ByOwner(v) ==
  \E r \in InFlight :
    /\ r.vid = v /\ r.kind \in {"update", "delete"}
    /\ r.user = docs[v].user_id
    /\ CopiesIn(r, reqs') < CopiesIn(r, reqs)

\* C12: an update or a delete by a caller who is not the owner is answered
\* 403 and leaves the documents, the media store and the requests as they
\* were; a step that rewrites or removes a video, or destroys a media object
\* it names, is a step of a request by its owner
C12_OnlyOwnerChangesVideo ==
  [][/\ \A u \in Users, v \in DOMAIN docs :
          (docs[v].user_id # u /\
             (\/ \E t \in Titles \cup {""}, thumb \in BOOLEAN :
                   UpdateFind(u, v, t, thumb)
              \/ DeleteFind(u, v)))
          => /\ lastResp'.status = 403
             /\ UNCHANGED <<docs, media, nmedia, reqs>>
     /\ \A v \in DOMAIN docs :
          (\/ v \notin DOMAIN docs'
           \/ Owned(docs'[v]) # Owned(docs[v])
           \/ ~(MediaOf(v) \cap media \subseteq media'))
          => ByOwner(v)]_vars

\* B's delete of A's video has been answered 403, while an update by A that
\* replaces the thumbnail is on its way
C12_Witness ==
  \E v \in DOMAIN docs :
    /\ docs[v].user_id = "A"
    /\ lastResp = Resp("delete", "B", v, 403)
    /\ MediaOf(v) \cap media = {docs[v].videoId}
    /\ \E r \in InFlight : r.kind = "update" /\ r.pc = "upload"

\* the step is one of a request by the author of the stored comment c
ByAuthor(c) ==
  \E r \in InFlight :
    /\ r.vid = c /\ r.kind \in {"commentUpdate", "commentDelete"}
    /\ r.user = comments[c].user_id
    /\ CopiesIn(r, reqs') < CopiesIn(r, reqs)

\* C13: an update or a delete of a comment by a caller who is not its author
\* is answered 403 and leaves the comments and the requests as they were; a
\* step that rewrites or removes a comment is a step of a request by its
\* author
C13_OnlyAuthorChangesComment ==
  [][/\ \A u \in Users, c \in DOMAIN comments :
          (comments[c].user_id # u /\
             (\/ \E txt \in Texts : CommentUpdateFind(u, c, txt)
              \/ CommentDeleteFind(u, c)))
          => /\ lastResp'.status = 403
             /\ UNCHANGED <<comments, reqs>>
     /\ \A c \in DOMAIN comments :
          (c \notin DOMAIN comments' \/ comments'[c] # comments[c])
          => ByAuthor(c)]_vars

\* A has rewritten a comment of A's, and B's update of it has been answered
\* 403 and has left A's text
C13_Witness ==
  \E c \in DOMAIN comments :
    /\ comments[c].user_id = "A"
    /\ comments[c].commentText = "c2"
    /\ lastResp = Resp("commentUpdate", "B", c, 403)

\* C14: an update or a delete of a video or of a comment is answered 404 when
\* the video or comment is not stored, and 403 when it is stored and the
\* caller is not its owner
C14_NotFoundAndDeniedCodes ==
  [][/\ \A u \in Users, c \in 1..MaxComments :
          (\/ \E txt \in Texts : CommentUpdateFind(u, c, txt)
           \/ CommentDeleteFind(u, c))
          => IF c \notin DOMAIN comments
             THEN lastResp'.status = 404
             ELSE comments[c].user_id # u => lastResp'.status = 403
     /\ \A u \in Users, v \in VideoIds :
          (\/ \E t \in Titles \cup {""}, thumb \in BOOLEAN :
                UpdateFind(u, v, t, thumb)
           \/ DeleteFind(u, v))
          => IF v \notin DOMAIN docs
             THEN lastResp'.status = 404
             ELSE docs[v].user_id # u => lastResp'.status = 403]_vars

\* C15: a request without a token, or with a token that does not verify, is
\* answered 401, and 401 answers no other request
C15_UnauthenticatedIs401 ==
  /\ (lastResp.kind # "none" /\ lastResp.user \notin Users)
       => lastResp.status = 401
  /\ lastResp.status = 401 => lastResp.user \notin Users

\* what is stored: the collections and the media store
stored == <<docs, comments, media>>

\* C20: a request whose token is missing or does not verify is answered by
\* checkAuth with an error, starts no handler and leaves what is stored as it
\* was; every handler that runs, and every document, has a verified caller
C20_HandlersRunVerified ==
  [][/\ (lastResp' # lastResp /\ lastResp'.user \notin Users)
          => /\ lastResp'.status \in {401, 500}
             /\ UNCHANGED <<stored, reqs, used, nmedia, ncomments, seen>>
     /\ \A r \in DOMAIN reqs' : r.user \in Users
     /\ \A v \in DOMAIN docs' :
          /\ docs'[v].user_id \in Users
          /\ Range(docs'[v].viewedBy) \subseteq Users]_vars

\* a like without a token has been answered 401 and has left the counters of
\* a stored video that A has viewed at zero
C20_Witness ==
  \E v \in DOMAIN docs :
    /\ lastResp = Resp("like", NoToken, v, 401)
    /\ Counters(docs[v]) = <<0, 0>>
    /\ docs[v].viewedBy = <<"A">>

\* C16: when a delete is answered 200 the document is no longer stored, and
\* the media objects it named when it was removed are no longer in the media
\* store
C16_DeleteReleasesMedia ==
  [][\A r \in InFlight :
       (DeleteDoc(r) /\ r.vid \in DOMAIN docs)
       => /\ lastResp' = Resp("delete", docs[r.vid].user_id, r.vid, 200)
          /\ r.vid \notin DOMAIN docs'
          /\ MediaOf(r.vid) \cap media' = {}]_vars

\* C17: a like, a dislike or a view that names a video that is not stored is
\* answered 404, starts no request and leaves the collections and the media
\* store as they were
C17_MissingVideoIs404 ==
  [][\A u \in Users, v \in Ids :
       (v \notin DOMAIN docs /\
          (View(u, v) \/ \E k \in Reactions : ReactFind(k, u, v)))
       => /\ lastResp'.status = 404
          /\ lastResp'.vid = v
          /\ UNCHANGED <<stored, reqs>>]_vars

\* a dislike of an id that no document has was answered 404 while a video
\* that A and B have viewed is stored
C17_Witness ==
  \E v \in DOMAIN docs : \E w \in Ids \ DOMAIN docs :
    /\ lastResp = Resp("dislike", "B", w, 404)
    /\ Counters(docs[v]) = <<0, 0>>
    /\ docs[v].viewedBy = <<"A", "B">>

\* the responses of the comment routes that create, update and delete
CommentWrites == {"comment", "commentUpdate", "commentDelete"}

\* C18: a step of a request that creates, updates or deletes a comment, and
\* every step that changes the comments, leaves every video document as it
\* was: its likes, dislikes and viewedBy with it
C18_CommentsLeaveVideos ==
  [][(\/ comments' # comments
      \/ lastResp' # lastResp /\ lastResp'.kind \in CommentWrites
      \/ \E r \in InFlight :
           r.kind \in CommentWrites /\ CopiesIn(r, reqs') < CopiesIn(r, reqs)
      \/ \E r \in DOMAIN reqs' :
           r.kind \in CommentWrites /\ CopiesIn(r, reqs') > CopiesIn(r, reqs))
     => UNCHANGED docs]_vars

\* a comment on a video that A and B have viewed was created and deleted,
\* and the views are still there
C18_Witness ==
  \E v \in DOMAIN docs :
    /\ docs[v].viewedBy = <<"A", "B">>
    /\ ncomments > 0 /\ comments = << >>
    /\ lastResp.kind = "commentDelete" /\ lastResp.status = 200

\* C19: whoever sends it, a like leaves likes one above the likes it found,
\* and dislikes one below the dislikes it found when that was above 0 and
\* unwritten otherwise; a dislike does the same with the counters exchanged
C19_NaivePolicy ==
  \A i \in DOMAIN hist :
    LET e == hist[i]
        t == IF e.kind = "like" THEN 1 ELSE 2
        o == 3 - t
    IN /\ e.after[t] = e.found[t] + 1
       /\ e.after[o] = IF e.found[o] > 0 THEN e.found[o] - 1 ELSE e.before[o]
       /\ Alone(i) => e.before = e.found

\* A likes twice and then B dislikes, one after the other on a new video: the
\* counters go (1,0), (2,0), (1,1)
C19_Witness ==
  /\ Len(hist) >= 3
  /\ \A i \in 1..3 : Alone(i) /\ hist[i].vid = hist[1].vid
  /\ <<hist[1].user, hist[1].kind, hist[1].before, hist[1].after>>
       = <<"A", "like", <<0, 0>>, <<1, 0>> >>
  /\ <<hist[2].user, hist[2].kind, hist[2].after>> = <<"A", "like", <<2, 0>> >>
  /\ <<hist[3].user, hist[3].kind, hist[3].after>> = <<"B", "dislike", <<1, 1>> >>

\* C21: whenever no request awaits a call (after requests have ended, with a
\* 200 or with the 500 of a call that rejected midway), the videoId and the
\* thumbnailId of every stored video name objects the media store holds
C21_NoDanglingMedia ==
  reqs = EmptyBag => \A v \in DOMAIN docs : MediaOf(v) \subseteq media

\* the id v was handed out and neither a document nor an upload on its way
\* has it: the video was deleted
Gone(v) ==
  /\ v \in used /\ v \notin DOMAIN docs
  /\ ~\E r \in InFlight : r.kind = "upload" /\ r.vid = v

\* C22: no step brings a deleted video back: not the save of a like, of a
\* dislike or of an update that read the video before the delete, not a view
C22_DeletedStaysDeleted ==
  [][\A v \in VideoIds : Gone(v) => v \notin DOMAIN docs']_vars

\* the video is gone and no request is left; the save of a like that had
\* read it before the delete was answered 500
C22_Witness ==
  \E v \in VideoIds :
    /\ Gone(v) /\ reqs = EmptyBag
    /\ lastResp.kind = "like" /\ lastResp.vid = v /\ lastResp.status = 500

\* C23: a video that comes to be stored has the user_id of the caller whose
\* upload stores it, a comment that of the caller who is answered 201; the
\* user_id of a stored video or comment is the same after every step
C23_OwnerAndAuthorFixed ==
  [][/\ \A v \in DOMAIN docs' :
          IF v \in DOMAIN docs
          THEN docs'[v].user_id = docs[v].user_id
          ELSE /\ \E r \in InFlight :
                    r.kind = "upload" /\ r.vid = v /\ r.user = docs'[v].user_id
               /\ lastResp' = Resp("upload", docs'[v].user_id, v, 200)
     /\ \A c \in DOMAIN comments' :
          IF c \in DOMAIN comments
          THEN comments'[c].user_id = comments[c].user_id
          ELSE lastResp' = Resp("comment", comments'[c].user_id, c, 201)]_vars

\* A's video has been liked and viewed by B and retitled by A, and B's
\* comment on it has been rewritten by B: the video is A's, the comment B's
C23_Witness ==
  \E v \in DOMAIN docs, c \in DOMAIN comments :
    /\ docs[v].user_id = "A" /\ docs[v].title = "t2"
    /\ docs[v].viewedBy = <<"B">> /\ Counters(docs[v]) = <<1, 0>>
    /\ comments[c] = [video_id |-> v, commentText |-> "c2", user_id |-> "B"]

\* the fields an update takes from the body
Metadata == {"title", "description", "category", "tags"}

\* the field f of the body b is missing or empty
Blank(b, f) == IF f = "tags" THEN b[f] = << >> ELSE b[f] = ""

\* C24: the save of an update that finds its video stored is answered 200 and
\* leaves every field of the document but title, description, category, tags
\* and thumbnailId as it was stored, likes, dislikes and viewedBy among them;
\* each of title, description, category and tags that the body left empty is
\* left as it was stored
C24_UpdateFrame ==
  [][\A r \in InFlight :
       (UpdateSave(r) /\ r.vid \in DOMAIN docs)
       => LET old == docs[r.vid]
              new == docs'[r.vid]
          IN /\ lastResp'.status = 200
             /\ \A f \in DOMAIN old \ (Metadata \cup {"thumbnailId"}) :
                  new[f] = old[f]
             /\ \A f \in Metadata : Blank(r.body, f) => new[f] = old[f]]_vars

\* A's update with a new description, new tags, a new thumbnail and nothing
\* else was answered 200: the title and the category are those of the
\* upload, and B's like, made before the update, and B's view, made while
\* the update was on its way, are kept
C24_Witness ==
  \E v \in DOMAIN docs :
    /\ lastResp = [Resp("update", "A", v, 200) EXCEPT !.stale = TRUE]
    /\ Owned(docs[v]) = <<"t1", 1, 3>>
    /\ docs[v].description = "d2" /\ docs[v].category = "g1"
    /\ docs[v].tags = << <<"z">> >>
    /\ Counters(docs[v]) = <<1, 0>> /\ docs[v].viewedBy = <<"B">>

\* C25: an upload that comes without the video file or without the thumbnail
\* file is answered 400, and leaves the media store, the documents and the
\* requests as they were
C25_UploadWithoutFiles ==
  [][\A u \in Users, t \in Titles, files \in SUBSET Files :
       (files # Files /\ UploadBuild(u, t, files))
       => /\ lastResp' = Resp("upload", u, 0, 400)
          /\ UNCHANGED <<docs, media, nmedia, used, reqs>>]_vars

\* an upload of A's without its files was answered 400 while a video of A's
\* is stored: the media store holds the two objects of that video and
\* nothing else
C25_Witness ==
  \E v \in DOMAIN docs :
    /\ docs[v].user_id = "A"
    /\ lastResp = Resp("upload", "A", 0, 400)
    /\ media = MediaOf(v) /\ nmedia = 2
    /\ reqs = EmptyBag

\* a request of u awaits a call
Pending(u) == \E r \in InFlight : r.user = u

\* C26: a step that ends a request sends the one response to it, a step that
\* starts a request or takes it to its next call sends nothing, and a step of
\* a handler that awaits no second call sends a response; every request that
\* awaits a call is answered in the end
C26_OneResponse ==
  /\ [][/\ \A r \in InFlight :
             (/\ CopiesIn(r, reqs') < CopiesIn(r, reqs)
              /\ BagCardinality(reqs') < BagCardinality(reqs))
             => /\ <<lastResp'.kind, lastResp'.user, lastResp'.vid>>
                     = <<r.kind, r.user, r.vid>>
                /\ lastResp'.status \in {200, 500}
        /\ (reqs' # reqs /\ BagCardinality(reqs') >= BagCardinality(reqs))
             => lastResp' = lastResp
        /\ reqs' = reqs => lastResp'.status \in {200, 201, 400, 401, 403, 404, 500}]_vars
  /\ \A u \in Users : Pending(u) ~> ~Pending(u)

\* A's delete has ended with the 500 of a call that rejected after the video
\* object was destroyed; no request is left and the document is still stored
C26_Witness ==
  \E v \in DOMAIN docs :
    /\ reqs = EmptyBag
    /\ lastResp = Resp("delete", "A", v, 500)
    /\ docs[v].videoId \notin media

====
